---- MODULE Spec2Model ----
(***************************************************************************)
(* Model of src/src/lib.rs: SubscriptionMap, a mutex guarded               *)
(* BTreeMap<K, SubscriptionEntry<V>> whose entries are reference counted   *)
(* by SubscriptionRef handles and removed by the handle's Drop.            *)
(*                                                                         *)
(* Every access to the BTreeMap happens under the mutex, so a thread is    *)
(* observable by the others only where it takes and where it gives back    *)
(* the lock.  Each critical section is therefore two steps: the one that   *)
(* takes the lock (lock_inner) and the one that runs the body and lets the *)
(* guard go.                                                               *)
(***************************************************************************)
EXTENDS Integers, FiniteSets, Bags, TLC

\* ---------------------------------------------------------------- bounds
NumThreads == 2
MaxKey == 1
MaxVal == 1
MaxRefs == 2
MaxVersion == 1

\* rc is a usize (lib.rs:24).  Its width is that of the target's pointers;
\* the narrowest one Rust supports (16 bits) is taken.
UsizeBits == 16

Threads == 1..NumThreads
Keys == 0..MaxKey
Values == 0..MaxVal
\* names of the Observable allocations made for one key: with at most MaxRefs
\* handles alive, MaxRefs + 1 names always leave one unused
ObsIds == 0..MaxRefs

NoThread == 0
NoKey == -1
NoVal == -1
NoObs == -1

VARIABLES
    map,      \* the BTreeMap behind the mutex: [subset of Keys -> SubscriptionEntry]
    lock,     \* the thread holding the MutexGuard, or NoThread
    pc,       \* where each thread is
    key,      \* per thread: the key argument of get_or_insert / self.key of drop
    value,    \* per thread: the value argument of get_or_insert
    fork,     \* per thread: self.observable of the SubscriptionRef being dropped
    refs,     \* bag of the SubscriptionRefs callers hold: [key, observable]
    outcome,  \* the call that finished last: its key, its value argument, its end
    keys,     \* per thread: the Keys cursor it owns: [previous, done]
    pending   \* the keys that were in the map when the cursor of thread Watched
              \* was made, have been there ever since and were not yet yielded
              \* by it

vars == <<map, lock, pc, key, value, fork, refs, outcome, keys, pending>>

\* ------------------------------------------------------- data and helpers

UsizeModulus == 2 ^ UsizeBits

\* SubscriptionEntry::new (lib.rs:31-36); id names the Observable::new allocation
\* Observable::new(value): the value and the count of the changes published
ObservableNew(id, v) == [id |-> id, value |-> v, version |-> 0]

SubscriptionEntryNew(id, v) ==
    [observable |-> ObservableNew(id, v), rc |-> 0]

\* Observable::publish_if_changed(value) -> bool: a value equal to the current
\* one is no change and notifies nobody
ObservablePublishIfChanged(o, v) ==
    IF o.value = v
    THEN [observable |-> o, changed |-> FALSE]
    ELSE [observable |-> [o EXCEPT !.value = v, !.version = @ + 1],
          changed |-> TRUE]

\* Observable::modify(mutator): the mutator is applied in place and the result
\* is always published
ObservableModify(o, f) == [o EXCEPT !.value = f[@], !.version = @ + 1]

\* Observable::fork: a handle on the same underlying observable
Fork(observable) == observable.id

\* the SubscriptionRef value built by SubscriptionRef::new (lib.rs:240-244)
SubscriptionRef(k, entry) == [key |-> k, observable |-> Fork(entry.observable)]

\* the live SubscriptionRefs of key k (a bag)
RefsOf(k) == [r \in {x \in BagToSet(refs) : x.key = k} |-> refs[r]]

\* number of SubscriptionRefs of key k whose drop has not yet decremented rc
Outstanding(k) == BagCardinality(RefsOf(k))

\* Observable allocations of key k still referenced by the map or by a handle
ObsInUse(k) ==
    (IF k \in DOMAIN map THEN {map[k].observable.id} ELSE {})
        \cup {r.observable : r \in {x \in BagToSet(refs) : x.key = k}}

\* Observable::new gives an allocation distinct from every one alive
FreshObs(k) == CHOOSE n \in ObsIds : /\ n \notin ObsInUse(k)
                                     /\ \A m \in 0..(n - 1) : m \in ObsInUse(k)

\* map.entry(key).or_insert(entry) (lib.rs:52)
OrInsertOverwrite(m, k, entry) ==
    [x \in DOMAIN m \cup {k} |-> IF x = k THEN entry ELSE m[x]]

OrInsert(m, k, entry) ==
    IF k \in DOMAIN m THEN m
    ELSE [x \in DOMAIN m \cup {k} |-> IF x = k THEN entry ELSE m[x]]

\* entry.rc += 1 (lib.rs:238)
IncrementNone(rc) == rc

Increment(rc) == (rc + 1) % UsizeModulus

\* entry.rc -= 1 (lib.rs:287), as the wrapping subtraction of a build without
\* overflow checks
DecrementNone(rc) == rc

Decrement(rc) == (rc - 1) % UsizeModulus

\* BTreeMap::remove (lib.rs:80)
MapRemoveKeep(m, k) == m

MapRemove(m, k) == [x \in DOMAIN m \ {k} |-> m[x]]

\* how SubscriptionMap::remove ends for key k on map m (lib.rs:70-82)
RemoveResultNoAssert(m, k) ==
    IF k \notin DOMAIN m THEN "notfound" ELSE "removed"

RemoveResult(m, k) ==
    IF k \notin DOMAIN m THEN "notfound"
    ELSE IF m[k].rc # 0 THEN "assert"
    ELSE "removed"

Done(k, v, res) == [key |-> k, value |-> v, res |-> res]

\* the thread whose cursor pending follows; the threads are interchangeable
Watched == CHOOSE t \in Threads : TRUE

\* Keys::from (lib.rs:171-177): previous: None, done: false
KeysFromMap == [previous |-> NoKey, done |-> FALSE]

\* the early return of Keys::next (lib.rs:190-192)
KeysDoneNever(c) == FALSE

KeysDone(c) == c.done

\* the keys inside the bounds of lib.rs:194-197, (Unbounded, Unbounded) or
\* (Excluded(previous), Unbounded), as range(bounds) walks them (lib.rs:202)
KeysRangeUnbounded(m, previous) == DOMAIN m

KeysRange(m, previous) ==
    IF previous = NoKey THEN DOMAIN m ELSE {k \in DOMAIN m : k > previous}

\* .next().map(|(k, _)| k.clone()) (lib.rs:203-204): the first key of the
\* range in ascending order, NoKey for None
RangeNextBack(range) ==
    IF range = {} THEN NoKey ELSE CHOOSE k \in range : \A x \in range : x <= k

RangeNext(range) ==
    IF range = {} THEN NoKey ELSE CHOOSE k \in range : \A x \in range : k <= x

\* the cursor after the lookup gave k (lib.rs:206-207); k is also what next
\* returns (lib.rs:209)
KeysAfter(k) == [previous |-> k, done |-> k = NoKey]

\* the map a lookup of Keys::next leaves behind: range takes &self (lib.rs:199-204)
KeysLookupPops(m, k) == IF k = NoKey THEN m ELSE [x \in DOMAIN m \ {k} |-> m[x]]

KeysLookup(m, k) == m

\* the shape of the state: SubscriptionMap (lib.rs:12), SubscriptionEntry
\* (lib.rs:19-25), SubscriptionRef (lib.rs:218-226)
\* where a thread is: in no call, between drop's critical section and remove
\* ("released"), waiting in lock_inner, or inside a critical section
Waiting == {"get_or_insert_wait", "drop_wait", "publish_wait", "next_wait"}

Locked == {"get_or_insert", "drop", "remove", "publish", "next"}

TypeOK ==
    /\ DOMAIN map \subseteq Keys
    /\ \A k \in DOMAIN map :
          /\ map[k].observable.id \in ObsIds
          /\ map[k].observable.value \in Values
          /\ map[k].observable.version \in 0..MaxVersion
          /\ map[k].rc \in 0..(UsizeModulus - 1)
    /\ lock \in Threads \cup {NoThread}
    /\ pc \in [Threads -> {"idle", "released"} \cup Waiting \cup Locked]
    /\ key \in [Threads -> Keys \cup {NoKey}]
    /\ value \in [Threads -> Values \cup {NoVal}]
    /\ fork \in [Threads -> ObsIds \cup {NoObs}]
    /\ IsABag(refs)
    /\ \A r \in BagToSet(refs) : r.key \in Keys /\ r.observable \in ObsIds
    /\ \A t \in Threads : lock = t <=> pc[t] \in Locked
    /\ keys \in [Threads -> [previous : Keys \cup {NoKey}, done : BOOLEAN]]
    /\ pending \subseteq Keys

\* ------------------------------------------------------------------ Init

Init ==
    /\ map = [k \in {} |-> SubscriptionEntryNew(0, 0)]
    /\ lock = NoThread
    /\ pc = [t \in Threads |-> "idle"]
    /\ key = [t \in Threads |-> NoKey]
    /\ value = [t \in Threads |-> NoVal]
    /\ fork = [t \in Threads |-> NoObs]
    /\ refs = EmptyBag
    /\ outcome = Done(NoKey, NoVal, "none")
    /\ keys = [t \in Threads |-> KeysFromMap]
    /\ pending = {}

\* --------------------------------------------------------------- actions

\* get_or_insert, lib.rs:49: let mut map = self.lock_inner()
GetOrInsertLock(t, k, v) ==
    /\ pc[t] = "idle"
    /\ lock = NoThread
    /\ BagCardinality(refs) < MaxRefs
    /\ lock' = t
    /\ pc' = [pc EXCEPT ![t] = "get_or_insert"]
    /\ key' = [key EXCEPT ![t] = k]
    /\ value' = [value EXCEPT ![t] = v]
    /\ UNCHANGED <<map, fork, refs, outcome, keys, pending>>

\* get_or_insert, lib.rs:50-56: or_insert, SubscriptionRef::new, guard dropped
GetOrInsertBody(t) ==
    /\ pc[t] = "get_or_insert"
    /\ lock = t
    /\ LET k == key[t]
           inserted == OrInsert(map, k, SubscriptionEntryNew(FreshObs(k), value[t]))
           entry == [inserted[k] EXCEPT !.rc = Increment(@)]
       IN /\ map' = [inserted EXCEPT ![k] = entry]
          /\ refs' = refs (+) SetToBag({SubscriptionRef(k, entry)})
          /\ outcome' = Done(k, value[t], "ok")
    /\ lock' = NoThread
    /\ pc' = [pc EXCEPT ![t] = "idle"]
    /\ key' = [key EXCEPT ![t] = NoKey]
    /\ value' = [value EXCEPT ![t] = NoVal]
    /\ UNCHANGED <<fork, keys, pending>>

\* drop, lib.rs:278: let mut map = self.owner.lock_inner()
DropLock(t, r) ==
    /\ pc[t] = "idle"
    /\ lock = NoThread
    /\ r \in BagToSet(refs)
    /\ lock' = t
    /\ pc' = [pc EXCEPT ![t] = "drop"]
    /\ key' = [key EXCEPT ![t] = r.key]
    /\ fork' = [fork EXCEPT ![t] = r.observable]
    /\ UNCHANGED <<map, value, refs, outcome, keys, pending>>

\* pending once key k has left the map
PendingWithout(k) == pending \ {k}

\* the thread leaves its operation
Return(t, res) ==
    /\ pc' = [pc EXCEPT ![t] = "idle"]
    /\ key' = [key EXCEPT ![t] = NoKey]
    /\ outcome' = Done(key[t], NoVal, res)

\* drop(map), lib.rs:290: the guard is let go before remove is called
DropMapKept(t) == t

DropMap(t) == NoThread

\* drop, lib.rs:279-297
DropBody(t) ==
    /\ pc[t] = "drop"
    /\ lock = t
    /\ refs' = refs (-) SetToBag({[key |-> key[t], observable |-> fork[t]]})
    /\ fork' = [fork EXCEPT ![t] = NoObs]
    /\ UNCHANGED <<value, keys, pending>>
    /\ LET k == key[t] IN
       IF k \notin DOMAIN map
       THEN \* lib.rs:281-284: log::error!, return
            /\ UNCHANGED map
            /\ Return(t, "missing")
       ELSE IF map[k].rc = 0
       THEN \* lib.rs:287 on rc = 0: "attempt to subtract with overflow" where
            \* overflow checks are compiled in, a wrapped counter where not
            \/ /\ UNCHANGED map
               /\ Return(t, "overflow")
            \/ /\ map' = [map EXCEPT ![k].rc = Decrement(@)]
               /\ Return(t, "kept")
       ELSE /\ map' = [map EXCEPT ![k].rc = Decrement(@)]
            /\ IF map'[k].rc = 0
               THEN \* lib.rs:289-291: drop(map), then self.owner.remove(&self.key)
                    /\ pc' = [pc EXCEPT ![t] = "released"]
                    /\ UNCHANGED <<key, outcome>>
               ELSE Return(t, "kept")
    /\ lock' = IF pc'[t] = "released" THEN DropMap(t) ELSE NoThread

\* remove, lib.rs:68: let mut map = self.lock_inner()
RemoveLock(t) ==
    /\ pc[t] = "released"
    /\ lock = NoThread
    /\ lock' = t
    /\ pc' = [pc EXCEPT ![t] = "remove"]
    /\ UNCHANGED <<map, key, value, fork, refs, outcome, keys, pending>>

\* remove, lib.rs:70-82, and the rest of drop, lib.rs:293-297
RemoveBody(t) ==
    /\ pc[t] = "remove"
    /\ lock = t
    /\ LET res == RemoveResult(map, key[t]) IN
          /\ map' = IF res = "removed" THEN MapRemove(map, key[t]) ELSE map
          /\ pending' = IF res = "removed" THEN PendingWithout(key[t]) ELSE pending
          /\ Return(t, res)
    /\ lock' = NoThread
    /\ UNCHANGED <<value, fork, refs, keys>>

Next ==
    \/ \E t \in Threads, k \in Keys, v \in Values : GetOrInsertLock(t, k, v)
    \/ \E t \in Threads : GetOrInsertBody(t)
    \/ \E t \in Threads, r \in BagToSet(refs) : DropLock(t, r)
    \/ \E t \in Threads : DropBody(t)
    \/ \E t \in Threads : RemoveLock(t)
    \/ \E t \in Threads : RemoveBody(t)

Spec == Init /\ [][Next]_vars

\* ------------------------------------------------------------- publishing

\* the map after publish_if_changed(key, value) (lib.rs:101-106): get_mut
\* gives the entry or the call fails
PublishIfChangedMapInserts(m, k, v) ==
    IF k \in DOMAIN m
    THEN [m EXCEPT ![k].observable = ObservablePublishIfChanged(@, v).observable]
    ELSE [x \in DOMAIN m \cup {k} |->
             IF x = k THEN SubscriptionEntryNew(FreshObs(k), v) ELSE m[x]]

PublishIfChangedMap(m, k, v) ==
    IF k \in DOMAIN m
    THEN [m EXCEPT ![k].observable = ObservablePublishIfChanged(@, v).observable]
    ELSE m

\* what entry.observable.publish_if_changed(value) returns (lib.rs:106)
PublishAlways(entry, v) == TRUE

Publishes(entry, v) == ObservablePublishIfChanged(entry.observable, v).changed

\* what publish_if_changed(key, value) returns (lib.rs:100-107)
PublishIfChangedResult(m, k, v) ==
    IF k \notin DOMAIN m THEN "absent"
    ELSE IF Publishes(m[k], v) THEN "true"
    ELSE "false"

\* the map after modify_and_publish(key, modify) (lib.rs:113-120)
ModifyAndPublishMap(m, k, f) ==
    IF k \in DOMAIN m
    THEN [m EXCEPT ![k].observable = ObservableModify(@, f)]
    ELSE m

\* a version counter is not let past MaxVersion
VersionLeft(k) == k \in DOMAIN map => map[k].observable.version < MaxVersion

\* the mutators given to modify_and_publish: v -> v + d, wrapping in Values
Mutators == {[v \in Values |-> (v + d) % (MaxVal + 1)] : d \in Values}

\* publish_if_changed, lib.rs:100-107, one critical section of a thread that
\* is in no other call
PublishIfChanged(k, v) ==
    /\ \E t \in Threads : pc[t] = "idle"
    /\ lock = NoThread
    /\ (k \in DOMAIN map /\ map[k].observable.value # v) => VersionLeft(k)
    /\ map' = PublishIfChangedMap(map, k, v)
    /\ outcome' = Done(k, v, PublishIfChangedResult(map, k, v))
    /\ UNCHANGED <<lock, pc, key, value, fork, refs, keys, pending>>

\* modify_and_publish, lib.rs:109-123, one critical section; the mutator is a
\* function on the values
ModifyAndPublish(k, f) ==
    /\ \E t \in Threads : pc[t] = "idle"
    /\ lock = NoThread
    /\ VersionLeft(k)
    /\ map' = ModifyAndPublishMap(map, k, f)
    /\ outcome' = Done(k, NoVal, IF k \in DOMAIN map THEN "modified" ELSE "absent")
    /\ UNCHANGED <<lock, pc, key, value, fork, refs, keys, pending>>

\* ------------------------------------------- the cursor over a changing map
\* The mutex serialises the critical sections, so for what a cursor or a
\* publishing call can see each of them is one step: get_or_insert
\* (lib.rs:49-56), the locked part of drop (lib.rs:278-290) and remove
\* (lib.rs:68-82).  These steps leave outcome alone.

\* get_or_insert, lib.rs:48-56
GetOrInsert(t, k, v) ==
    /\ pc[t] = "idle"
    /\ lock = NoThread
    /\ BagCardinality(refs) < MaxRefs
    /\ LET inserted == OrInsert(map, k, SubscriptionEntryNew(FreshObs(k), v))
           entry == [inserted[k] EXCEPT !.rc = Increment(@)]
       IN /\ map' = [inserted EXCEPT ![k] = entry]
          /\ refs' = refs (+) SetToBag({SubscriptionRef(k, entry)})
    /\ UNCHANGED <<lock, pc, key, value, fork, outcome, keys, pending>>

\* drop, lib.rs:275-290, up to the guard being let go
Drop(t, r) ==
    /\ pc[t] = "idle"
    /\ lock = NoThread
    /\ r \in BagToSet(refs)
    /\ refs' = refs (-) SetToBag({r})
    /\ UNCHANGED <<lock, value, fork, outcome, keys, pending>>
    /\ LET k == r.key IN
       IF k \notin DOMAIN map
       THEN UNCHANGED <<map, pc, key>>
       ELSE IF map[k].rc = 0
       THEN /\ UNCHANGED map \/ map' = [map EXCEPT ![k].rc = Decrement(@)]
            /\ UNCHANGED <<pc, key>>
       ELSE /\ map' = [map EXCEPT ![k].rc = Decrement(@)]
            /\ IF map'[k].rc = 0
               THEN /\ pc' = [pc EXCEPT ![t] = "released"]
                    /\ key' = [key EXCEPT ![t] = k]
               ELSE UNCHANGED <<pc, key>>

\* remove, lib.rs:67-83, as called by drop at lib.rs:291
Remove(t) ==
    /\ pc[t] = "released"
    /\ lock = NoThread
    /\ LET res == RemoveResult(map, key[t]) IN
          /\ map' = IF res = "removed" THEN MapRemove(map, key[t]) ELSE map
          /\ pending' = IF res = "removed" THEN PendingWithout(key[t]) ELSE pending
    /\ pc' = [pc EXCEPT ![t] = "idle"]
    /\ key' = [key EXCEPT ![t] = NoKey]
    /\ UNCHANGED <<lock, value, fork, refs, outcome, keys>>

\* keys / into_iter, lib.rs:58-60, 144-146, 171-177: the thread makes itself a
\* new cursor
KeysFrom(t) ==
    /\ pc[t] = "idle"
    /\ keys' = [keys EXCEPT ![t] = KeysFromMap]
    /\ pending' = IF t = Watched THEN DOMAIN map ELSE pending
    /\ UNCHANGED <<map, lock, pc, key, value, fork, refs, outcome>>

\* Keys::next, lib.rs:187-210; the guard lives for the lookup alone
KeysNext(t) ==
    /\ pc[t] = "idle"
    /\ IF KeysDone(keys[t])
       THEN UNCHANGED <<map, keys, pending>>
       ELSE /\ lock = NoThread
            /\ LET k == RangeNext(KeysRange(map, keys[t].previous)) IN
                  /\ map' = KeysLookup(map, k)
                  /\ keys' = [keys EXCEPT ![t] = KeysAfter(k)]
                  /\ pending' = IF t = Watched THEN pending \ {k} ELSE pending
    /\ UNCHANGED <<lock, pc, key, value, fork, refs, outcome>>

\* the values are those of the tests (get_or_insert(k, k), lib.rs:394-396):
\* a cursor never reads one
NextKeys ==
    \/ \E t \in Threads, k \in Keys : GetOrInsert(t, k, k % (MaxVal + 1))
    \/ \E t \in Threads, r \in BagToSet(refs) : Drop(t, r)
    \/ \E t \in Threads : Remove(t)
    \/ \E t \in Threads : KeysFrom(t)
    \/ \E t \in Threads : KeysNext(t)

SpecKeys == Init /\ [][NextKeys]_vars

\* publishing while entries come and go
\* one thread takes and releases SubscriptionRefs, every thread publishes
NextPublish ==
    \/ \E k \in Keys, v \in Values : GetOrInsert(Watched, k, v)
    \/ \E r \in BagToSet(refs) : Drop(Watched, r)
    \/ Remove(Watched)
    \/ \E k \in Keys, v \in Values : PublishIfChanged(k, v)
    \/ \E k \in Keys, f \in Mutators : ModifyAndPublish(k, f)

SpecPublish == Init /\ [][NextPublish]_vars

\* ------------------------------------------------- waiting for the mutex
\* A call that has started and has not got the mutex yet waits in lock_inner.
\* The critical sections are those of the actions above.

\* lock_inner, lib.rs:85-90: the mutex is taken once it is free; a poisoned
\* mutex is taken all the same
LockInner(t, waiting, locked) ==
    /\ pc[t] = waiting
    /\ lock = NoThread
    /\ lock' = t
    /\ pc' = [pc EXCEPT ![t] = locked]
    /\ UNCHANGED <<map, key, value, fork, refs, outcome, keys, pending>>

\* the calls of kind waiting or locked that are under way on key k
InFlight(k, waiting, locked) ==
    Cardinality({u \in Threads : pc[u] \in {waiting, locked} /\ key[u] = k})

\* get_or_insert is called, lib.rs:48
GetOrInsertCall(t, k, v) ==
    /\ pc[t] = "idle"
    /\ BagCardinality(refs)
         + Cardinality({u \in Threads : pc[u] \in {"get_or_insert_wait", "get_or_insert"}})
         < MaxRefs
    /\ pc' = [pc EXCEPT ![t] = "get_or_insert_wait"]
    /\ key' = [key EXCEPT ![t] = k]
    /\ value' = [value EXCEPT ![t] = v]
    /\ UNCHANGED <<map, lock, fork, refs, outcome, keys, pending>>

\* get_or_insert, lib.rs:49
GetOrInsertAcquire(t) == LockInner(t, "get_or_insert_wait", "get_or_insert")

\* a SubscriptionRef goes out of scope, lib.rs:275; no two threads drop the
\* same one
DropCall(t, r) ==
    /\ pc[t] = "idle"
    /\ r \in BagToSet(refs)
    /\ Cardinality({u \in Threads : /\ pc[u] \in {"drop_wait", "drop"}
                                   /\ key[u] = r.key
                                   /\ fork[u] = r.observable}) < CopiesIn(r, refs)
    /\ pc' = [pc EXCEPT ![t] = "drop_wait"]
    /\ key' = [key EXCEPT ![t] = r.key]
    /\ fork' = [fork EXCEPT ![t] = r.observable]
    /\ UNCHANGED <<map, lock, value, refs, outcome, keys, pending>>

\* drop, lib.rs:278
DropAcquire(t) == LockInner(t, "drop_wait", "drop")

\* publish_if_changed is called, lib.rs:100; the calls under way can not take
\* the version past MaxVersion
PublishIfChangedCall(t, k, v) ==
    /\ pc[t] = "idle"
    /\ (IF k \in DOMAIN map THEN map[k].observable.version ELSE 0)
         + InFlight(k, "publish_wait", "publish") < MaxVersion
    /\ pc' = [pc EXCEPT ![t] = "publish_wait"]
    /\ key' = [key EXCEPT ![t] = k]
    /\ value' = [value EXCEPT ![t] = v]
    /\ UNCHANGED <<map, lock, fork, refs, outcome, keys, pending>>

\* publish_if_changed, lib.rs:101
PublishIfChangedAcquire(t) == LockInner(t, "publish_wait", "publish")

\* publish_if_changed, lib.rs:102-107
PublishIfChangedBody(t) ==
    /\ pc[t] = "publish"
    /\ lock = t
    /\ map' = PublishIfChangedMap(map, key[t], value[t])
    /\ outcome' = Done(key[t], value[t], PublishIfChangedResult(map, key[t], value[t]))
    /\ lock' = NoThread
    /\ pc' = [pc EXCEPT ![t] = "idle"]
    /\ key' = [key EXCEPT ![t] = NoKey]
    /\ value' = [value EXCEPT ![t] = NoVal]
    /\ UNCHANGED <<fork, refs, keys, pending>>

\* Keys::next is called on a cursor that is not done, lib.rs:187-196; on a
\* done cursor it returns at once (lib.rs:190-192)
KeysNextCall(t) ==
    /\ pc[t] = "idle"
    /\ ~KeysDone(keys[t])
    /\ pc' = [pc EXCEPT ![t] = "next_wait"]
    /\ UNCHANGED <<map, lock, key, value, fork, refs, outcome, keys, pending>>

\* Keys::next, lib.rs:198-200
KeysNextAcquire(t) == LockInner(t, "next_wait", "next")

\* Keys::next, lib.rs:201-209
KeysNextBody(t) ==
    /\ pc[t] = "next"
    /\ lock = t
    /\ LET k == RangeNext(KeysRange(map, keys[t].previous)) IN
          /\ map' = KeysLookup(map, k)
          /\ keys' = [keys EXCEPT ![t] = KeysAfter(k)]
          /\ pending' = IF t = Watched THEN pending \ {k} ELSE pending
    /\ lock' = NoThread
    /\ pc' = [pc EXCEPT ![t] = "idle"]
    /\ UNCHANGED <<key, value, fork, refs, outcome>>

\* thread t takes the mutex
Acquire(t) ==
    \/ GetOrInsertAcquire(t)
    \/ DropAcquire(t)
    \/ RemoveLock(t)
    \/ PublishIfChangedAcquire(t)
    \/ KeysNextAcquire(t)

\* thread t runs its critical section and lets the mutex go
Critical(t) ==
    \/ GetOrInsertBody(t)
    \/ DropBody(t)
    \/ RemoveBody(t)
    \/ PublishIfChangedBody(t)
    \/ KeysNextBody(t)

\* the threads contend for the one mutex whatever the keys are: all calls
\* are made on one key.  Every thread takes and releases SubscriptionRefs;
\* thread Watched publishes and steps its cursor as well.
LiveKey == CHOOSE k \in Keys : TRUE

NextLive ==
    \/ \E t \in Threads : GetOrInsertCall(t, LiveKey, LiveKey % (MaxVal + 1))
    \/ \E t \in Threads, r \in BagToSet(refs) : DropCall(t, r)
    \/ \E v \in Values : PublishIfChangedCall(Watched, LiveKey, v)
    \/ KeysFrom(Watched)
    \/ KeysNextCall(Watched)
    \/ \E t \in Threads : Acquire(t)
    \/ \E t \in Threads : Critical(t)

\* a thread inside a critical section goes on, and the mutex is fair: a
\* thread that waits while the mutex is free again and again gets it
SpecLive ==
    /\ Init
    /\ [][NextLive]_vars
    /\ \A t \in Threads : WF_vars(Critical(t)) /\ SF_vars(Acquire(t))

\* ---------------------------------------------------------------- claims

\* the counter of key k as snapshot() shows it, 0 where the key has no entry
RcOf(k) == IF k \in DOMAIN map THEN map[k].rc ELSE 0

\* thread t is at the step that ends its get_or_insert
EndsGetOrInsert(t) == pc[t] = "get_or_insert" /\ pc'[t] # "get_or_insert"

\* thread t is at the step of its drop that decrements the counter
DropDecrements(t) == pc[t] = "drop" /\ pc'[t] # "drop"

\* thread t is at the step that ends the drop of a SubscriptionRef
EndsDrop(t) == pc[t] \in {"drop", "remove"} /\ pc'[t] = "idle"

\* C1: no step deletes the entry of a key for which a SubscriptionRef is
\* outstanding (held, or in a drop that has not yet decremented the counter).
C1_NeverEvictedWhileReferenced ==
    [][\A k \in Keys :
          (k \in DOMAIN map /\ k \notin DOMAIN map') => Outstanding(k) = 0]_vars

\* C1 witness: a remove ran against a key with an outstanding SubscriptionRef
\* and the entry is still in the map.
C1_Witness ==
    /\ outcome.res = "assert"
    /\ outcome.key \in DOMAIN map
    /\ Outstanding(outcome.key) > 0

\* C2: whenever the lock is free, every entry of the map has a counter > 0
\* (a key is present iff its counter is > 0).
C2_PresentIffReferenced ==
    lock = NoThread => \A k \in DOMAIN map : map[k].rc > 0

\* C3: the remove issued by a drop never fails its assertion rc == 0.
C3_AssertionNeverFails == outcome.res # "assert"

\* C4: the remove issued by a drop always finds its key in the map.
C4_RemoveFindsKey == outcome.res # "notfound"

\* C5: with the lock free the counter of every key is the number of its
\* outstanding SubscriptionRefs; a get_or_insert adds exactly 1 to the counter
\* of its key, a drop takes exactly 1 from it, and no other step changes a
\* counter.
C5_CounterIsOutstanding ==
    /\ [](lock = NoThread => \A k \in Keys : RcOf(k) = Outstanding(k))
    /\ [][\A k \in Keys :
            /\ \A t \in Threads :
                  /\ (EndsGetOrInsert(t) /\ key[t] = k) => RcOf(k)' = RcOf(k) + 1
                  /\ (DropDecrements(t) /\ key[t] = k) => RcOf(k)' = RcOf(k) - 1
            /\ RcOf(k)' # RcOf(k) =>
                  \E t \in Threads : /\ key[t] = k
                                     /\ EndsGetOrInsert(t) \/ DropDecrements(t)]_vars

\* C5 witness: two SubscriptionRefs of one key are held and its counter is 2.
C5_Witness ==
    /\ lock = NoThread
    /\ \E k \in DOMAIN map : map[k].rc = 2 /\ Outstanding(k) = 2

\* C6: at the step that ends the drop of a SubscriptionRef, if no
\* SubscriptionRef of its key is outstanding then the key has no entry.
C6_ImmediateEviction ==
    [][\A t \in Threads, k \in Keys :
          (EndsDrop(t) /\ key[t] = k /\ Outstanding(k)' = 0) => k \notin DOMAIN map']_vars

\* C6 witness: the drop of the last SubscriptionRef of one key removed its
\* entry and left the entry of another key in the map.
C6_Witness ==
    /\ outcome.res = "removed"
    /\ outcome.key \notin DOMAIN map
    /\ DOMAIN map # {}

\* C7: when no SubscriptionRef is held and every thread has finished its
\* operation, the map is empty.
C7_NoLeak ==
    ((\A t \in Threads : pc[t] = "idle") /\ refs = EmptyBag) => DOMAIN map = {}

\* C7 witness: everything was dropped, the last drop having lost the race for
\* the removal, and the map is empty.
C7_Witness ==
    /\ \A t \in Threads : pc[t] = "idle"
    /\ refs = EmptyBag
    /\ outcome.res = "notfound"
    /\ DOMAIN map = {}

\* C8: every held SubscriptionRef is a fork of the observable of the one entry
\* its key has in the map, whose counter (lock free) is the number of those
\* SubscriptionRefs; a get_or_insert that finds an entry keeps its observable
\* and value.
C8_OneEntryPerKey ==
    /\ [](\A r \in BagToSet(refs) :
            /\ r.key \in DOMAIN map
            /\ r.observable = map[r.key].observable.id
            /\ lock = NoThread => map[r.key].rc = Outstanding(r.key))
    /\ [][\A t \in Threads :
            (EndsGetOrInsert(t) /\ key[t] \in DOMAIN map) =>
                map'[key[t]].observable = map[key[t]].observable]_vars

\* C8 witness: two get_or_insert calls with different values returned two
\* SubscriptionRefs of the same entry.
C8_Witness ==
    /\ outcome.res = "ok"
    /\ outcome.key \in DOMAIN map
    /\ map[outcome.key].observable.value # outcome.value
    /\ \E r \in BagToSet(refs) : r.key = outcome.key /\ refs[r] = 2

\* C9: a remove that finds a counter other than 0 fails its assertion and
\* leaves the map as it is.
C9_AssertKeepsEntry ==
    [][\A t \in Threads :
          (pc[t] = "remove" /\ pc'[t] # "remove" /\ RcOf(key[t]) # 0) =>
              /\ map' = map
              /\ outcome' = Done(key[t], NoVal, "assert")]_vars

\* C9 witness: a remove failed its assertion and the entry is in the map with
\* its counter.
C9_Witness ==
    /\ outcome.res = "assert"
    /\ lock = NoThread
    /\ RcOf(outcome.key) = 1

\* C10: get_or_insert returns one new SubscriptionRef of its key; on an
\* existing entry it adds 1 to that counter and changes nothing else of the
\* map; on a missing key it adds that key alone, with the given value and
\* counter 1.
C10_GetOrInsertEffect ==
    [][\A t \in Threads :
          EndsGetOrInsert(t) =>
              LET k == key[t] IN
              /\ outcome' = Done(k, value[t], "ok")
              /\ \E r \in BagToSet(refs') :
                    r.key = k /\ refs' = refs (+) SetToBag({r})
              /\ IF k \in DOMAIN map
                 THEN map' = [map EXCEPT ![k].rc = @ + 1]
                 ELSE /\ DOMAIN map' = DOMAIN map \cup {k}
                      /\ map'[k].observable.value = value[t]
                      /\ map'[k].rc = 1
                      /\ \A x \in DOMAIN map : map'[x] = map[x]]_vars

\* C10 witness: a get_or_insert with a value other than the stored one
\* returned while the entry existed; the stored value is the old one.
C10_Witness ==
    /\ outcome.res = "ok"
    /\ outcome.key \in DOMAIN map
    /\ map[outcome.key].rc >= 2
    /\ map[outcome.key].observable.value # outcome.value
    /\ \E x \in DOMAIN map : x # outcome.key

\* a step in which the cursor of thread t is used (next), not made (keys())
CursorSteps(t) == keys'[t] # keys[t] /\ keys'[t] # KeysFromMap

\* C11: a cursor yields only while it is not exhausted, and each key it yields
\* is strictly greater than the key it yielded before (so than all of them):
\* no key comes twice.
C11_Ascending ==
    [][\A t \in Threads :
          (CursorSteps(t) /\ keys'[t].previous # NoKey) =>
              /\ ~keys[t].done
              /\ keys[t].previous # NoKey => keys'[t].previous > keys[t].previous]_vars

\* C11 witness: with every key in the map a cursor has walked up to the
\* greatest one while another thread is inside a drop.
C11_Witness ==
    /\ DOMAIN map = Keys
    /\ pending = {}
    /\ keys[Watched] = [previous |-> MaxKey, done |-> FALSE]
    /\ \E t \in Threads : pc[t] = "released"

\* C12: an exhausted cursor stays as it is whatever happens to the map (only
\* keys() gives the thread a new one), and the step of a cursor on an empty
\* map exhausts it.
C12_StickyExhaustion ==
    [][\A t \in Threads :
          /\ keys[t].done => (keys'[t] = keys[t] \/ keys'[t] = KeysFromMap)
          /\ (CursorSteps(t) /\ DOMAIN map = {}) => keys'[t].done]_vars

\* C12 witness: a cursor is exhausted and every key is in the map.
C12_Witness ==
    \E t \in Threads : keys[t].done /\ DOMAIN map = Keys

\* C13: the step of a cursor that is not exhausted yields the least key of
\* the map above the one it saw last (the least of all when it saw none), and
\* exhausts the cursor only when the map has no such key.
C13_NextIsLeastAbove ==
    [][\A t \in Threads :
          CursorSteps(t) =>
              LET last == keys[t].previous
                  above == {k \in DOMAIN map : last = NoKey \/ k > last}
              IN IF above = {}
                 THEN keys'[t] = [previous |-> NoKey, done |-> TRUE]
                 ELSE /\ ~keys'[t].done
                      /\ keys'[t].previous \in above
                      /\ \A k \in above : keys'[t].previous <= k]_vars

\* C13 witness: a cursor has yielded the greatest key while key 0 is not in
\* the map.
C13_Witness ==
    /\ keys[Watched] = [previous |-> MaxKey, done |-> FALSE]
    /\ 0 \notin DOMAIN map
    /\ MaxKey \in DOMAIN map

\* C18: a step that changes the cursor of a thread (next, or keys() making a
\* new one) changes neither the map, nor the SubscriptionRefs, nor the cursor
\* of any other thread.
C18_CursorsIndependent ==
    [][\A t \in Threads :
          keys'[t] # keys[t] =>
              /\ map' = map
              /\ refs' = refs
              /\ \A u \in Threads \ {t} : keys'[u] = keys[u]]_vars

\* C18 witness: two cursors on the same non-empty map, one exhausted and one
\* that has just yielded key 0.
C18_Witness ==
    \E t, u \in Threads :
        /\ t # u
        /\ keys[t] = [previous |-> 0, done |-> FALSE]
        /\ keys[u].done
        /\ DOMAIN map # {}

\* C19: every key that has been in the map ever since the cursor was made is
\* either yielded already or still ahead of the cursor, and none is left when
\* the cursor is exhausted.
C19_CursorComplete ==
    /\ keys[Watched].done => pending = {}
    /\ \A k \in pending : k > keys[Watched].previous

\* C19 witness: the cursor has yielded key 0, the greatest key has been in the
\* map since the cursor was made and is still ahead, and another thread is
\* inside a drop.
C19_Witness ==
    /\ keys[Watched] = [previous |-> 0, done |-> FALSE]
    /\ pending = {MaxKey}
    /\ \E t \in Threads : pc[t] = "released"

\* C17: a drop that holds the lock finds the entry of its key with a counter
\* of at least 1; no drop has taken the missing-key branch and no decrement
\* has gone below 0.
C17_DropFindsEntry ==
    /\ \A t \in Threads :
          pc[t] = "drop" => (key[t] \in DOMAIN map /\ map[key[t]].rc >= 1)
    /\ outcome.res \notin {"missing", "overflow"}

\* C17 witness: a drop holds the lock on an entry that another drop has
\* already brought to 0 and a get_or_insert has revived.
C17_Witness ==
    \E t, u \in Threads :
        /\ pc[t] = "drop"
        /\ pc[u] = "released"
        /\ key[u] = key[t]
        /\ key[t] \in DOMAIN map
        /\ map[key[t]].rc = 1

\* ------------------------------------------------------------- publishing

\* C14: publish_if_changed and modify_and_publish on a key that has no entry
\* fail with the NotFound error and leave the map as it was: no entry is made,
\* no entry's value or rc is touched, no SubscriptionRef appears
C14_AbsentKeyNotFound ==
    [][\A k \in Keys :
          /\ k \notin DOMAIN map
          /\ \/ \E v \in Values : PublishIfChanged(k, v)
             \/ \E f \in Mutators : ModifyAndPublish(k, f)
          => /\ outcome'.res = "absent"
             /\ outcome'.key = k
             /\ map' = map
             /\ refs' = refs]_vars

\* a call on an absent key has failed while another key has a live entry
C14_Witness ==
    /\ outcome.res = "absent"
    /\ outcome.key \notin DOMAIN map
    /\ \E x \in DOMAIN map : map[x].rc >= 1

\* C15: publish_if_changed on a present key answers false and leaves value
\* and version alone when the value given equals the stored one; it answers
\* true, stores the value and publishes a new version when they differ; the
\* keys of the map, every rc and the SubscriptionRefs stay the same
C15_PublishIfChangedEffect ==
    [][\A k \in Keys, v \in Values :
          k \in DOMAIN map /\ PublishIfChanged(k, v)
          => /\ DOMAIN map' = DOMAIN map
             /\ \A x \in DOMAIN map : map'[x].rc = map[x].rc
             /\ refs' = refs
             /\ outcome'.key = k
             /\ IF v = map[k].observable.value
                THEN /\ outcome'.res = "false"
                     /\ map'[k].observable = map[k].observable
                ELSE /\ outcome'.res = "true"
                     /\ map'[k].observable.value = v
                     /\ map'[k].observable.version
                            = map[k].observable.version + 1]_vars

\* both answers have been given: a published change, and an equal value
C15_Witness ==
    /\ outcome.res = "false"
    /\ outcome.key \in DOMAIN map
    /\ map[outcome.key].observable.value = outcome.value
    /\ map[outcome.key].observable.version >= 1
    /\ map[outcome.key].rc >= 1

\* ------------------------------------------------------------ termination

\* C16: no thread waits for the mutex while it holds it (drop lets the guard
\* go before it calls remove), and with a fair mutex every call that has
\* started (get_or_insert, drop, publish_if_changed, Keys::next) comes to
\* its end
C16_NoSelfDeadlock ==
    /\ [](\A t \in Threads : pc[t] \in Waiting \cup {"released"} => lock # t)
    /\ \A t \in Threads : [](pc[t] # "idle" => <>(pc[t] = "idle"))

\* a drop has let the guard go and waits to call remove while another thread
\* is inside get_or_insert for the same key
C16_Witness ==
    \E t, u \in Threads :
        /\ u # t
        /\ pc[t] = "released"
        /\ lock = u
        /\ pc[u] = "get_or_insert"
        /\ key[u] = key[t]

====
